---- MODULE Spec2Model ----
(***************************************************************************)
(* Payroll engine of Employee-base-System: the net-pay calculator          *)
(* (NetPayCalculator.js), the anomaly strategies                           *)
(* (route/check_payroll_anomaly.js) and the routes that call them.         *)
(*                                                                         *)
(* Numbers.  A JavaScript number is modelled as a fixed-point value in     *)
(* hundredths: Num(250) is 2.50, a rate of 0.12 is Num(12).  Salaries and  *)
(* bonuses are drawn as whole units (multiples of 100), so every product   *)
(* "amount * rate" of the model is exact.  NaN and undefined are values of *)
(* their own; binary floating-point rounding is not modelled.              *)
(*                                                                         *)
(* Objects.  A JSON object is a function from its own keys to values; a    *)
(* missing key is a key outside DOMAIN.  A property read follows the       *)
(* prototype chain to Object.prototype.                                    *)
(***************************************************************************)
EXTENDS Integers, Sequences, FiniteSets, TLC

VARIABLES
    TAX_RULES,   \* the rule table loaded at start-up (part_000:6-15)
    historyDB,   \* db/payroll_history.json, as readHistoryDB returns it
    payrollDB,   \* db/payroll.json, as readDB returns it
    clock,       \* the current month, new Date().toISOString().slice(0, 7)
    usersDB,     \* the user store user.json, as readUsersDB returns it
    registrations, \* the POST /auth/register requests, each with its position
    request,     \* the request (or call) served last
    outcome,     \* what the engine function called last returned or threw
    response     \* the HTTP response sent last

vars ==
    <<TAX_RULES, historyDB, payrollDB, clock, usersDB, registrations,
      request, outcome, response>>

\* the rule table, the files, the clock and the registrations in flight
stores == <<TAX_RULES, historyDB, payrollDB, clock, usersDB, registrations>>

----------------------------------------------------------------------------
(* JavaScript values *)

Num(n) == [t |-> "number", v |-> n]
NaN == [t |-> "NaN", v |-> 0]
Undefined == [t |-> "undefined", v |-> 0]

IsNumber(x) == x.t = "number"

\* ToNumber of a number, NaN or undefined
ToNumber(x) == IF IsNumber(x) THEN x ELSE NaN

\* a + b on numbers, NaN and undefined
JSAdd(a, b) ==
    IF IsNumber(a) /\ IsNumber(b) THEN Num(a.v + b.v) ELSE NaN

\* a - b
JSSub(a, b) ==
    IF IsNumber(a) /\ IsNumber(b) THEN Num(a.v - b.v) ELSE NaN

\* a * b, both in hundredths
JSMul(a, b) ==
    IF IsNumber(a) /\ IsNumber(b) THEN Num((a.v * b.v) \div 100) ELSE NaN

\* a >= b and a <= b: false as soon as one side is NaN
JSGe(a, b) == IsNumber(a) /\ IsNumber(b) /\ a.v >= b.v
JSLe(a, b) == IsNumber(a) /\ IsNumber(b) /\ a.v <= b.v

\* a > b and a < b, likewise
JSGt(a, b) == IsNumber(a) /\ IsNumber(b) /\ a.v > b.v
JSLt(a, b) == IsNumber(a) /\ IsNumber(b) /\ a.v < b.v

\* obj.key for a numeric field of a JSON object
Field(obj, key) == IF key \in DOMAIN obj THEN Num(obj[key]) ELSE Undefined

\* the names every object inherits from Object.prototype
ObjectPrototypeKeys ==
    {"constructor", "toString", "valueOf", "hasOwnProperty", "__proto__"}

----------------------------------------------------------------------------
(* Bounds of the inputs, in whole currency units *)

MaxSalary == 4
MaxBonus == 3
MaxDeductions == 2

Units(k) == 100 * k

\* the upper end of a last slab, 9999999 in tax_rules.json
Top == Units(9999999)

----------------------------------------------------------------------------
(* Rule tables: config/tax_rules.json *)

IncomeSlab(min, max, rate) == [min |-> min, max |-> max, rate |-> rate]
TaxSlab(min, max, tax) == [min |-> min, max |-> max, tax |-> tax]

\* slabs that partition the whole units 0..Top, as the documented table does
PartitionIncomeSlabs ==
    << IncomeSlab(0, Units(2), 0),
       IncomeSlab(Units(3), Units(4), 5),
       IncomeSlab(Units(5), Top, 10) >>

\* slabs that leave 3 uncovered
GapIncomeSlabs ==
    << IncomeSlab(0, Units(2), 5), IncomeSlab(Units(4), Top, 10) >>

\* adjacent slabs that share the boundary 3
SharedIncomeSlabs ==
    << IncomeSlab(0, Units(3), 5), IncomeSlab(Units(3), Top, 10) >>

IncomeSlabTables ==
    {PartitionIncomeSlabs, GapIncomeSlabs, SharedIncomeSlabs, << >>}

DocumentedProfessionalTax ==
    [Mumbai |-> << TaxSlab(0, Units(2), 0),
                   TaxSlab(Units(3), Units(4), 17500),
                   TaxSlab(Units(5), Top, 20000) >>,
     Delhi |-> << TaxSlab(0, Top, 0) >>,
     default |-> << TaxSlab(0, Top, 0) >>]

\* a table whose default differs from every location, with a gap at 3 in
\* Mumbai and a shared boundary 2 in Delhi
VariedProfessionalTax ==
    [Mumbai |-> << TaxSlab(0, Units(2), 5000), TaxSlab(Units(4), Top, 20000) >>,
     Delhi |-> << TaxSlab(0, Units(2), 1000), TaxSlab(Units(2), Top, 3000) >>,
     default |-> << TaxSlab(0, Units(1), 7000), TaxSlab(Units(2), Top, 9000) >>]

\* a table without the default entry
NoDefaultProfessionalTax ==
    [Mumbai |-> << TaxSlab(0, Top, 20000) >>]

ProfessionalTaxTables ==
    {DocumentedProfessionalTax, VariedProfessionalTax, NoDefaultProfessionalTax}

SocialSecurityPercents == {0, 12}

Sections == {"social_security_percent", "income_tax_slabs", "professional_tax"}

\* obj without the keys in missing
Without(obj, missing) == [k \in (DOMAIN obj) \ missing |-> obj[k]]

CompleteRuleTables ==
    [social_security_percent : SocialSecurityPercents,
     income_tax_slabs : IncomeSlabTables,
     professional_tax : ProfessionalTaxTables]

----------------------------------------------------------------------------
(* Employee records *)

Locations == {"Mumbai", "Delhi", "Pune", "constructor"}

CompleteEmployees ==
    [employee_id : {"E1"},
     location : Locations,
     salary : {Units(k) : k \in 0..MaxSalary},
     bonus : {Units(k) : k \in 0..MaxBonus},
     deductions : {Units(k) : k \in 0..MaxDeductions}]

\* a record of the payroll store carries no location (curd_employee.js:96-105)
OptionalFields == {"location"}

\* the value of a request body without an employee
undefinedEmployee == [undefined |-> TRUE]

IsUndefined(employee) == "undefined" \in DOMAIN employee

----------------------------------------------------------------------------
(* NetPayCalculator.js *)

\* a callback that excludes the upper end of the range
SlabMatches_exclusiveMax(grossPay, slab) ==
    /\ JSGe(grossPay, Num(slab.min))
    /\ JSLe(grossPay, Num(slab.max))
    /\ grossPay.v # slab.max

\* the callback of slabs.find: grossPay >= slab.min && grossPay <= slab.max
SlabMatches(grossPay, slab) ==
    JSGe(grossPay, Num(slab.min)) /\ JSLe(grossPay, Num(slab.max))

\* a search that returns the last slab that matches
Find_last(slabs, grossPay) ==
    IF \E i \in 1..Len(slabs) : SlabMatches(grossPay, slabs[i])
    THEN CHOOSE i \in 1..Len(slabs) :
            /\ SlabMatches(grossPay, slabs[i])
            /\ \A j \in (i + 1)..Len(slabs) : ~SlabMatches(grossPay, slabs[j])
    ELSE 0

\* Array.prototype.find: the index of the first slab that matches, 0 for
\* undefined
Find(slabs, grossPay) ==
    IF \E i \in 1..Len(slabs) : SlabMatches(grossPay, slabs[i])
    THEN CHOOSE i \in 1..Len(slabs) :
            /\ SlabMatches(grossPay, slabs[i])
            /\ \A j \in 1..(i - 1) : ~SlabMatches(grossPay, slabs[j])
    ELSE 0

\* the tax summed slab by slab over the part of grossPay inside each slab
RECURSIVE ProgressiveTax(_, _, _)
ProgressiveTax(gross, slabs, i) ==
    IF i > Len(slabs) THEN 0
    ELSE LET upper == IF gross < slabs[i].max THEN gross ELSE slabs[i].max
             lower == IF i = 1 THEN 0 ELSE slabs[i - 1].max
             part == IF upper > lower THEN upper - lower ELSE 0
         IN  (part * slabs[i].rate) \div 100 + ProgressiveTax(gross, slabs, i + 1)

calculateIncomeTax_progressive(grossPay, slabs) ==
    IF IsNumber(grossPay) THEN Num(ProgressiveTax(grossPay.v, slabs, 1)) ELSE Num(0)

calculateIncomeTax(grossPay, slabs) ==
    LET applicableSlab == Find(slabs, grossPay)
    IN  IF applicableSlab # 0
        THEN JSMul(grossPay, Num(slabs[applicableSlab].rate))
        ELSE Num(0)

calculateSlabTax(grossPay, slabs) ==
    LET applicableSlab == Find(slabs, grossPay)
    IN  IF applicableSlab # 0 THEN Num(slabs[applicableSlab].tax) ELSE Num(0)

Throw(name, message) ==
    [pending |-> FALSE, threw |-> TRUE, name |-> name, message |-> message]
Return(value) == [pending |-> FALSE, threw |-> FALSE, value |-> value]

\* TAX_RULES.professional_tax[employee.location] ||
\* TAX_RULES.professional_tax.default, as the key of the table selected:
\* an own key, "inherited" for a value of Object.prototype, "undefined"
LocationRules(professional_tax, employee) ==
    LET location == IF "location" \in DOMAIN employee
                    THEN employee.location ELSE "undefined"
    IN  IF location \in DOMAIN professional_tax THEN location
        ELSE IF location \in ObjectPrototypeKeys THEN "inherited"
        ELSE IF "default" \in DOMAIN professional_tax THEN "default"
        ELSE "undefined"

\* a result whose net pay leaves the personal deductions out
NetPayResult_withoutPersonal(employee, grossPay, companyTax, socialSecurity, professionalTax) ==
    LET personalDeductions == Field(employee, "deductions")
        ruleDeductions == JSAdd(JSAdd(companyTax, socialSecurity), professionalTax)
    IN  [employee_id |-> employee.employee_id,
         gross_pay |-> grossPay,
         net_pay |-> JSSub(grossPay, ruleDeductions),
         breakdown |->
            [company_tax |-> companyTax,
             social_security |-> socialSecurity,
             professional_tax |-> professionalTax,
             personal_deductions |-> personalDeductions,
             total_deductions |-> JSAdd(ruleDeductions, personalDeductions)]]

NetPayResult(employee, grossPay, companyTax, socialSecurity, professionalTax) ==
    LET personalDeductions == Field(employee, "deductions")
        totalDeductions ==
            JSAdd(JSAdd(JSAdd(companyTax, socialSecurity), professionalTax),
                  personalDeductions)
        netPay == JSSub(grossPay, totalDeductions)
    IN  [employee_id |-> employee.employee_id,
         gross_pay |-> grossPay,
         net_pay |-> netPay,
         breakdown |->
            [company_tax |-> companyTax,
             social_security |-> socialSecurity,
             professional_tax |-> professionalTax,
             personal_deductions |-> personalDeductions,
             total_deductions |-> totalDeductions]]

\* a gross pay that forgets the bonus
GrossPay_salaryOnly(employee) == ToNumber(Field(employee, "salary"))

GrossPay(employee) == JSAdd(Field(employee, "salary"), Field(employee, "bonus"))

calculateNetPay(employee) ==
    IF IsUndefined(employee)
    THEN Throw("Error", "Employee data is required.")
    ELSE IF "professional_tax" \notin DOMAIN TAX_RULES
    THEN Throw("Error", "Tax rules are not loaded.")
    ELSE IF "income_tax_slabs" \notin DOMAIN TAX_RULES
    THEN Throw("TypeError", "Cannot read properties of undefined (reading 'find')")
    ELSE
      LET grossPay == GrossPay(employee)
          companyTax == calculateIncomeTax(grossPay, TAX_RULES.income_tax_slabs)
          socialSecurity ==
              JSMul(grossPay, Field(TAX_RULES, "social_security_percent"))
          locationRules == LocationRules(TAX_RULES.professional_tax, employee)
      IN  IF locationRules = "undefined"
          THEN Throw("TypeError",
                     "Cannot read properties of undefined (reading 'find')")
          ELSE IF locationRules = "inherited"
          THEN Throw("TypeError", "slabs.find is not a function")
          ELSE Return(NetPayResult(employee, grossPay, companyTax, socialSecurity,
                  calculateSlabTax(grossPay,
                                   TAX_RULES.professional_tax[locationRules])))

\* JSON.stringify of a number: NaN is written as null
ToJSON(x) == IF IsNumber(x) THEN x ELSE [t |-> "null", v |-> 0]

\* the body of the 200 response of POST /payroll/calculate-net; a field
\* whose value is undefined is left out of the JSON text
NetPayBody(r) ==
    [employee_id |-> r.employee_id,
     gross_pay |-> ToJSON(r.gross_pay),
     net_pay |-> ToJSON(r.net_pay),
     breakdown |->
        LET b == [k \in DOMAIN r.breakdown |-> ToJSON(r.breakdown[k])]
        IN  IF r.breakdown.personal_deductions.t = "undefined"
            THEN Without(b, {"personal_deductions"}) ELSE b]

InternalServerError == [status |-> 500, body |-> [error |-> "Internal Server Error"]]

\* a request that is received and not served yet
Pending == outcome.pending

\* POST /payroll/calculate-net; an exception of the handler reaches the
\* global error handler
CalculateNet ==
    /\ Pending
    /\ request.op = "calculate-net"
    /\ outcome' = calculateNetPay(request.employee)
    /\ response' = IF outcome'.threw THEN InternalServerError
                   ELSE [status |-> 200, body |-> NetPayBody(outcome'.value)]
    /\ UNCHANGED <<stores, request>>

NoOutcome == [pending |-> TRUE, threw |-> FALSE]
NoResponse == [status |-> 0]

CalculateNetRequests ==
    {[op |-> "calculate-net", employee |-> undefinedEmployee]} \cup
    {[op |-> "calculate-net", employee |-> Without(complete, missing)] :
        complete \in CompleteEmployees, missing \in SUBSET OptionalFields}

\* start-up: tax_rules.json is parsed, or TAX_RULES stays {} when that fails;
\* one request is on its way to the server
InitNetPay ==
    /\ \E table \in CompleteRuleTables, missing \in SUBSET Sections :
          TAX_RULES = Without(table, missing)
    /\ historyDB = << >>
    /\ payrollDB = << >>
    /\ clock = "2025-11"
    /\ usersDB = << >>
    /\ registrations = << >>
    /\ request \in CalculateNetRequests
    /\ outcome = NoOutcome
    /\ response = NoResponse

NextNetPay == CalculateNet

SpecNetPay == InitNetPay /\ [][NextNetPay]_vars

\* the numeric fields of an employee record
NumericFields == {"salary", "bonus", "deductions"}

\* requests whose employee lacks some of the numeric fields
IncompleteRecordRequests ==
    {[op |-> "calculate-net", employee |-> Without(complete, missing)] :
        complete \in CompleteEmployees, missing \in SUBSET NumericFields}

\* the rule tables are loaded in full; one request is on its way
InitRecord ==
    /\ TAX_RULES \in [social_security_percent : SocialSecurityPercents,
                      income_tax_slabs : {PartitionIncomeSlabs},
                      professional_tax : {DocumentedProfessionalTax}]
    /\ historyDB = << >>
    /\ payrollDB = << >>
    /\ clock = "2025-11"
    /\ usersDB = << >>
    /\ registrations = << >>
    /\ request \in IncompleteRecordRequests
    /\ outcome = NoOutcome
    /\ response = NoResponse

SpecRecord == InitRecord /\ [][NextNetPay]_vars

----------------------------------------------------------------------------
(* Exact quotients: the numbers detectHistoricalVariance computes by "/" *)

Sign(n) == IF n > 0 THEN 1 ELSE IF n < 0 THEN -1 ELSE 0
Abs(n) == IF n < 0 THEN -n ELSE n

RECURSIVE GCD(_, _)
GCD(a, b) == IF b = 0 THEN a ELSE GCD(b, a % b)

\* the number num / den, den > 0, in lowest terms
Quotient(num, den) ==
    LET g == GCD(Abs(num), den)
    IN  [t |-> "number", num |-> num \div g, den |-> den \div g]
QNaN == [t |-> "NaN", num |-> 0, den |-> 1]
\* Infinity (sign 1) and -Infinity (sign -1)
QInfinity(sign) == [t |-> "Infinity", num |-> sign, den |-> 1]

\* a fixed-point number as a quotient; NaN and undefined become NaN
ToQuotient(x) == IF IsNumber(x) THEN Quotient(x.v, 100) ELSE QNaN

\* a - b
QSub(a, b) ==
    IF a.t = "NaN" \/ b.t = "NaN" THEN QNaN
    ELSE IF a.t = "Infinity" /\ b.t = "Infinity"
    THEN IF a.num = b.num THEN QNaN ELSE a
    ELSE IF a.t = "Infinity" THEN a
    ELSE IF b.t = "Infinity" THEN QInfinity(-b.num)
    ELSE Quotient(a.num * b.den - b.num * a.den, a.den * b.den)

\* a / b: x / 0 is an infinity of the sign of x, 0 / 0 is NaN
QDiv(a, b) ==
    IF a.t = "NaN" \/ b.t = "NaN" THEN QNaN
    ELSE IF a.t = "Infinity" /\ b.t = "Infinity" THEN QNaN
    ELSE IF a.t = "Infinity"
    THEN QInfinity(IF b.num < 0 THEN -a.num ELSE a.num)
    ELSE IF b.t = "Infinity" THEN Quotient(0, 1)
    ELSE IF b.num = 0
    THEN IF a.num = 0 THEN QNaN ELSE QInfinity(Sign(a.num))
    ELSE Quotient(a.num * b.den * Sign(b.num), a.den * Abs(b.num))

\* Math.abs
QAbs(a) ==
    IF a.t = "number" THEN Quotient(Abs(a.num), a.den)
    ELSE IF a.t = "Infinity" THEN QInfinity(1)
    ELSE a

\* a > b: false as soon as one side is NaN
QGt(a, b) ==
    IF a.t = "NaN" \/ b.t = "NaN" THEN FALSE
    ELSE IF a.t = "Infinity" THEN a.num > 0 /\ ~(b.t = "Infinity" /\ b.num > 0)
    ELSE IF b.t = "Infinity" THEN b.num < 0
    ELSE a.num * b.den > b.num * a.den

\* a * b for a number b other than 0
QMul(a, b) ==
    IF a.t = "NaN" THEN QNaN
    ELSE IF a.t = "Infinity" THEN QInfinity(a.num * Sign(b.num))
    ELSE Quotient(a.num * b.num, a.den * b.den)

\* Math.round(a * scale): the integer nearest to it, halves rounded up
QRound(a, scale) ==
    IF a.t = "number"
    THEN Quotient((2 * a.num * scale + a.den) \div (2 * a.den), 1)
    ELSE a

----------------------------------------------------------------------------
(* check_payroll_anomaly.js: STRATEGY 1, historical variance *)

\* historyDB.filter(h => h.employee_id === employee.employee_id)
FilterHistory(history, employee_id) ==
    SelectSeq(history, LAMBDA h : h.employee_id = employee_id)

\* array.slice(0, n)
Slice(array, n) == SubSeq(array, 1, IF Len(array) < n THEN Len(array) ELSE n)

\* recentHistory.reduce((acc, record) => acc + record.net_pay, 0)
RECURSIVE SumNetPay(_)
SumNetPay(records) ==
    IF records = << >> THEN 0
    ELSE records[1].net_pay + SumNetPay(Tail(records))

\* the reason of a flag: its wording and the three rounded values it cites
VarianceReason(wording, percentChange, avgHistoryNetPay, currentNetPay) ==
    [wording |-> wording,
     percent |-> QRound(percentChange, 100),
     avg |-> QRound(avgHistoryNetPay, 1),
     proposed |-> QRound(currentNetPay, 1)]

\* the 50% and 20% thresholds, 0.5 and 0.2
AnomalyThreshold == Quotient(5, 10)
ReviewThreshold == Quotient(2, 10)

\* a test that also fires at the threshold itself
Exceeds_orEqual(percentChange, threshold) ==
    \/ QGt(QAbs(percentChange), threshold)
    \/ QAbs(percentChange) = threshold

\* Math.abs(percentChange) > threshold
Exceeds(percentChange, threshold) == QGt(QAbs(percentChange), threshold)

\* lines 34-53: the flags for an employee with enough history
VarianceFlags(recentHistory, proposedPay) ==
    LET total == SumNetPay(recentHistory)
        avgHistoryNetPay == QDiv(Quotient(total, 100), Quotient(Len(recentHistory), 1))
        currentNetPay == ToQuotient(proposedPay.net_pay)
        percentChange == QDiv(QSub(currentNetPay, avgHistoryNetPay), avgHistoryNetPay)
    IN  IF Exceeds(percentChange, AnomalyThreshold)
        THEN << [level |-> "ANOMALY",
                 reason |-> VarianceReason("Net pay jump of", percentChange,
                                           avgHistoryNetPay, currentNetPay)] >>
        ELSE IF Exceeds(percentChange, ReviewThreshold)
        THEN << [level |-> "REVIEW",
                 reason |-> VarianceReason("Net pay change of", percentChange,
                                           avgHistoryNetPay, currentNetPay)] >>
        ELSE << >>

\* records in the order of their pay_period, the latest first
RECURSIVE SortByPeriod(_)
SortByPeriod(records) ==
    IF records = << >> THEN << >>
    ELSE LET latest == CHOOSE i \in 1..Len(records) :
                          \A j \in 1..Len(records) :
                              records[j].pay_period <= records[i].pay_period
         IN  << records[latest] >> \o
             SortByPeriod(SubSeq(records, 1, latest - 1)
                          \o SubSeq(records, latest + 1, Len(records)))

\* a window that sorts by pay_period before it takes six records
RecentHistory_sorted(employeeHistory) == Slice(SortByPeriod(employeeHistory), 6)

\* employeeHistory.slice(0, 6)
RecentHistory(employeeHistory) == Slice(employeeHistory, 6)

\* a strategy that counts the records of every employee for the floor of 3
detectHistoricalVariance_lengthOfAll(employee, proposedPay, history) ==
    LET employeeHistory == FilterHistory(history, employee.employee_id)
    IN  IF Len(history) < 3 \/ employeeHistory = << >>
        THEN << >>
        ELSE VarianceFlags(RecentHistory(employeeHistory), proposedPay)

detectHistoricalVariance(employee, proposedPay, history) ==
    LET employeeHistory == FilterHistory(history, employee.employee_id)
    IN  IF Len(employeeHistory) < 3
        THEN << >>
        ELSE VarianceFlags(RecentHistory(employeeHistory), proposedPay)

\* the strategy is called with an employee, a proposed pay and the history
DetectHistorical ==
    /\ Pending
    /\ request.op = "historical-variance"
    /\ outcome' = Return(detectHistoricalVariance(request.employee,
                                                   request.proposedPay, historyDB))
    /\ UNCHANGED <<stores, request, response>>

(* Bounds of the history *)

\* the history holds at most MaxHistory records
MaxHistory == 7
\* proposed net pays run from -0.1 to MaxNetPay tenths of a unit
MaxNetPay == 16

\* the net pays of the history records of E1; a record of E2 has OtherNetPay
HistoryNetPays == {0, Units(1)}
OtherNetPay == Units(5)

HistoryEntries ==
    [employee_id : {"E1"}, net_pay : HistoryNetPays]
        \cup {[employee_id |-> "E2", net_pay |-> OtherNetPay]}

\* a history file of the entries, most recent first or oldest first
HistoryFile(entries, recentFirst) ==
    [i \in 1..Len(entries) |->
        [employee_id |-> entries[i].employee_id,
         pay_period |-> IF recentFirst THEN Len(entries) - i + 1 ELSE i,
         net_pay |-> entries[i].net_pay]]

HistoryFiles ==
    {HistoryFile(entries, recentFirst) :
        entries \in UNION {[1..n -> HistoryEntries] : n \in 0..MaxHistory},
        recentFirst \in BOOLEAN}

ProposedPays ==
    {[employee_id |-> "E1", net_pay |-> Num(10 * k)] : k \in (-1)..MaxNetPay}

HistoricalRequests ==
    {[op |-> "historical-variance",
      employee |-> [employee_id |-> "E1"],
      proposedPay |-> p] : p \in ProposedPays}

InitHistory ==
    /\ TAX_RULES = [social_security_percent |-> 12,
                    income_tax_slabs |-> PartitionIncomeSlabs,
                    professional_tax |-> DocumentedProfessionalTax]
    /\ historyDB \in HistoryFiles
    /\ payrollDB = << >>
    /\ clock = "2025-11"
    /\ usersDB = << >>
    /\ registrations = << >>
    /\ request \in HistoricalRequests
    /\ outcome = NoOutcome
    /\ response = NoResponse

NextHistory == DetectHistorical

SpecHistory == InitHistory /\ [][NextHistory]_vars

----------------------------------------------------------------------------
(* check_payroll_anomaly.js: STRATEGY 2, peer variance *)

\* obj.key for a string field: the string, or undefined for a missing key
Text(obj, key) ==
    IF key \in DOMAIN obj THEN [t |-> "string", s |-> obj[key]]
    ELSE [t |-> "undefined", s |-> ""]

\* a callback that keeps the employee itself in its group
IsPeer_withSelf(p, employee) ==
    /\ Text(p, "department") = Text(employee, "department")
    /\ Text(p, "location") = Text(employee, "location")

\* the callback of proposedPayroll.filter (lines 63-65)
IsPeer(p, employee) ==
    /\ Text(p, "department") = Text(employee, "department")
    /\ Text(p, "location") = Text(employee, "location")
    /\ p.employee_id # employee.employee_id

\* peerGroup.reduce((acc, p) => acc + p.salary, 0)
RECURSIVE SumSalary(_)
SumSalary(records) ==
    IF records = << >> THEN Num(0)
    ELSE JSAdd(SumSalary(SubSeq(records, 1, Len(records) - 1)),
               Field(records[Len(records)], "salary"))

\* the reason of a peer flag: its wording and the values it cites
PeerReason(wording, employee, avgPeerSalary) ==
    [wording |-> wording,
     salary |-> Field(employee, "salary"),
     avg |-> QRound(avgPeerSalary, 1),
     department |-> Text(employee, "department"),
     location |-> Text(employee, "location")]

\* the multipliers 3 and 1.5
AnomalyMultiplier == Quotient(3, 1)
ReviewMultiplier == Quotient(3, 2)

\* a test that fires as soon as the salary lies above the peer average
AboveMultiple_ofOne(currentSalary, avgPeerSalary, multiplier) ==
    QGt(ToQuotient(currentSalary), avgPeerSalary)

\* currentSalary > avgPeerSalary * multiplier
AboveMultiple(currentSalary, avgPeerSalary, multiplier) ==
    QGt(ToQuotient(currentSalary), QMul(avgPeerSalary, multiplier))

detectPeerVariance(employee, proposedPayroll) ==
    LET peerGroup == SelectSeq(proposedPayroll, LAMBDA p : IsPeer(p, employee))
    IN  IF Len(peerGroup) < 1
        THEN << >>
        ELSE
          LET total == SumSalary(peerGroup)
              avgPeerSalary == QDiv(ToQuotient(total), Quotient(Len(peerGroup), 1))
              currentSalary == Field(employee, "salary")
          IN  IF AboveMultiple(currentSalary, avgPeerSalary, AnomalyMultiplier)
              THEN << [level |-> "ANOMALY",
                       reason |-> PeerReason("3x+ the peer average", employee,
                                             avgPeerSalary)] >>
              ELSE IF AboveMultiple(currentSalary, avgPeerSalary, ReviewMultiplier)
              THEN << [level |-> "REVIEW",
                       reason |-> PeerReason("1.5x+ the peer average", employee,
                                             avgPeerSalary)] >>
              ELSE << >>

\* the strategy is called with an employee of the batch and the batch
DetectPeer ==
    /\ Pending
    /\ request.op = "peer-variance"
    /\ outcome' = Return(detectPeerVariance(request.employee, payrollDB))
    /\ UNCHANGED <<stores, request, response>>

(* Bounds of the batch *)

\* the batch holds the employee under test and at most MaxOthers other records
MaxOthers == 3

Departments == {"Engineering", "Operations"}
PeerSalaries == {Units(1), Units(2)}

\* the other records of a batch; a record of the store has no location
OtherRecords ==
    {Without(r, missing) :
        r \in [employee_id : {"E1", "E2"},
               name : {"N"},
               department : Departments,
               location : {"Mumbai"},
               salary : PeerSalaries,
               bonus : {0},
               deductions : {0}],
        missing \in {{}, {"location"}}}

\* the employees under test
Subjects ==
    {Without(r, missing) :
        r \in [employee_id : {"E1"},
               name : {"N"},
               department : {"Engineering"},
               location : {"Mumbai"},
               salary : {Units(k) : k \in 0..MaxSalary},
               bonus : {0},
               deductions : {0}],
        missing \in {{}, {"location"}}}

InitPeer ==
    /\ TAX_RULES = [social_security_percent |-> 12,
                    income_tax_slabs |-> PartitionIncomeSlabs,
                    professional_tax |-> DocumentedProfessionalTax]
    /\ historyDB = << >>
    /\ clock = "2025-11"
    /\ usersDB = << >>
    /\ registrations = << >>
    /\ \E subject \in Subjects,
          others \in UNION {[1..n -> OtherRecords] : n \in 0..MaxOthers} :
          /\ payrollDB = << subject >> \o others
          /\ request = [op |-> "peer-variance", employee |-> subject]
    /\ outcome = NoOutcome
    /\ response = NoResponse

NextPeer == DetectPeer

SpecPeer == InitPeer /\ [][NextPeer]_vars

----------------------------------------------------------------------------
(* check_payroll_anomaly.js: STRATEGY 3, absolute rules *)

\* the reasons of the two flags are fixed texts
NegativeNetPayFlag ==
    [level |-> "ANOMALY",
     reason |-> [wording |-> "Net pay is negative. Total deductions exceed gross pay."]]

LargeBonusFlag ==
    [level |-> "REVIEW",
     reason |-> [wording |-> "Bonus is more than 200% of base salary."]]

\* a variant that tests the bonus only when the net pay is not negative
detectAbsoluteRules_elseIf(employee, proposedPay) ==
    IF JSLt(proposedPay.net_pay, Num(0)) THEN << NegativeNetPayFlag >>
    ELSE IF JSGt(Field(employee, "bonus"), JSMul(Field(employee, "salary"), Num(200)))
    THEN << LargeBonusFlag >>
    ELSE << >>

detectAbsoluteRules(employee, proposedPay) ==
    (IF JSLt(proposedPay.net_pay, Num(0)) THEN << NegativeNetPayFlag >> ELSE << >>)
    \o (IF JSGt(Field(employee, "bonus"), JSMul(Field(employee, "salary"), Num(200)))
        THEN << LargeBonusFlag >> ELSE << >>)

DetectAbsolute ==
    /\ Pending
    /\ request.op = "absolute-rules"
    /\ outcome' = Return(detectAbsoluteRules(request.employee, request.proposedPay))
    /\ UNCHANGED <<stores, request, response>>

\* the employees of the calls: salary and bonus within the bounds, or missing
AbsoluteEmployees ==
    {Without(e, missing) :
        e \in {c \in CompleteEmployees : c.location = "Mumbai" /\ c.deductions = 0},
        missing \in SUBSET {"salary", "bonus"}}

\* the proposed pays of the calls: a net pay within the bounds, or NaN
AbsolutePays == ProposedPays \cup {[employee_id |-> "E1", net_pay |-> NaN]}

InitAbsolute ==
    /\ TAX_RULES = [social_security_percent |-> 12,
                    income_tax_slabs |-> PartitionIncomeSlabs,
                    professional_tax |-> DocumentedProfessionalTax]
    /\ historyDB = << >>
    /\ payrollDB = << >>
    /\ clock = "2025-11"
    /\ usersDB = << >>
    /\ registrations = << >>
    /\ \E employee \in AbsoluteEmployees, proposedPay \in AbsolutePays :
          request = [op |-> "absolute-rules", employee |-> employee,
                     proposedPay |-> proposedPay]
    /\ outcome = NoOutcome
    /\ response = NoResponse

NextAbsolute == DetectAbsolute

SpecAbsolute == InitAbsolute /\ [][NextAbsolute]_vars

----------------------------------------------------------------------------
(* check_payroll_anomaly.js: detectAnomalies and POST /payroll/detect-anomalies *)

\* a variant that stops at the first strategy that reports something
FlagsOf_firstStrategy(employee, proposedPay, proposedPayroll, history) ==
    LET historical == detectHistoricalVariance(employee, proposedPay, history)
        peer == detectPeerVariance(employee, proposedPayroll)
    IN  IF historical # << >> THEN historical
        ELSE IF peer # << >> THEN peer
        ELSE detectAbsoluteRules(employee, proposedPay)

\* a variant that runs the absolute rules first
FlagsOf_absoluteFirst(employee, proposedPay, proposedPayroll, history) ==
    detectAbsoluteRules(employee, proposedPay)
    \o detectHistoricalVariance(employee, proposedPay, history)
    \o detectPeerVariance(employee, proposedPayroll)

\* the flags of one employee: the three strategies, spread into one array
FlagsOf(employee, proposedPay, proposedPayroll, history) ==
    detectHistoricalVariance(employee, proposedPay, history)
    \o detectPeerVariance(employee, proposedPayroll)
    \o detectAbsoluteRules(employee, proposedPay)

\* a variant that reports an anomaly as soon as anything is flagged
OverallStatus_anyFlag(allFlags) ==
    IF allFlags # << >> THEN "ANOMALY_DETECTED" ELSE "CLEAN"

OverallStatus(allFlags) ==
    IF \E i \in 1..Len(allFlags) : \E j \in 1..Len(allFlags[i].flags) :
          allFlags[i].flags[j].level = "ANOMALY"
    THEN "ANOMALY_DETECTED"
    ELSE IF Len(allFlags) > 0 THEN "REVIEW_REQUIRED"
    ELSE "CLEAN"

\* allFlags after the loop over the batch, given the proposed pay of each
\* employee
AllFlags(proposedPayroll, pays, history) ==
    LET F[i \in 0..Len(proposedPayroll)] ==
            IF i = 0 THEN << >>
            ELSE LET employee == proposedPayroll[i]
                     flags == FlagsOf(employee, pays[i].value, proposedPayroll, history)
                 IN  IF Len(flags) > 0
                     THEN Append(F[i - 1], [employee_id |-> employee.employee_id,
                                            name |-> employee.name,
                                            flags |-> flags])
                     ELSE F[i - 1]
    IN  F[Len(proposedPayroll)]

\* detectAnomalies reads the history file and the clock itself; the first
\* exception of calculateNetPay leaves the loop
detectAnomalies(proposedPayroll) ==
    LET pays == [i \in 1..Len(proposedPayroll) |-> calculateNetPay(proposedPayroll[i])]
        thrown == {i \in 1..Len(proposedPayroll) : pays[i].threw}
    IN  IF thrown # {}
        THEN pays[CHOOSE i \in thrown : \A j \in thrown : i <= j]
        ELSE LET allFlags == AllFlags(proposedPayroll, pays, historyDB)
             IN  Return([pay_period |-> clock,
                         status |-> OverallStatus(allFlags),
                         report |-> allFlags])

NotFound == [status |-> 404, body |-> [error |-> "Employee not found."]]

\* a handler that starts a new history file once the report is built
DetectAnomaliesRoute_clearsHistory ==
    /\ Pending
    /\ request.op = "detect-anomalies"
    /\ outcome' = IF Len(payrollDB) = 0 THEN Return(NotFound.body)
                  ELSE detectAnomalies(payrollDB)
    /\ response' = IF Len(payrollDB) = 0 THEN NotFound
                   ELSE IF outcome'.threw THEN InternalServerError
                   ELSE [status |-> 200, body |-> outcome'.value]
    /\ historyDB' = IF response'.status = 200 THEN << >> ELSE historyDB
    /\ UNCHANGED <<TAX_RULES, payrollDB, clock, usersDB, registrations, request>>

\* POST /payroll/detect-anomalies: the batch is the payroll store, the body
\* of the request is not read
DetectAnomaliesRoute ==
    /\ Pending
    /\ request.op = "detect-anomalies"
    /\ outcome' = IF Len(payrollDB) = 0 THEN Return(NotFound.body)
                  ELSE detectAnomalies(payrollDB)
    /\ response' = IF Len(payrollDB) = 0 THEN NotFound
                   ELSE IF outcome'.threw THEN InternalServerError
                   ELSE [status |-> 200, body |-> outcome'.value]
    /\ UNCHANGED <<stores, request>>

(* Bounds of the report builds *)

\* at most MaxBatch records in the payroll store
MaxBatch == 2

EmployeeIds == {"E1", "E2", "E3"}

\* the records of the store, as POST /payroll writes them: no location
ReportRecords ==
    {[employee_id |-> id, name |-> "N", department |-> "Engineering",
      salary |-> salary, bonus |-> extra[1], deductions |-> extra[2]] :
        id \in EmployeeIds,
        salary \in {Units(1), Units(2)},
        extra \in {<<0, 0>>, <<Units(3), 0>>, <<0, Units(2)>>}}

\* the stores: records with pairwise different employee_id
Batches ==
    {batch \in UNION {[1..n -> ReportRecords] : n \in 0..MaxBatch} :
        \A i, j \in 1..Len(batch) :
            batch[i].employee_id = batch[j].employee_id => i = j}

\* no history, or three records of E1 and three of E2
ReportHistories ==
    {HistoryFile(SubSeq(<< [employee_id |-> "E1", net_pay |-> 70],
                           [employee_id |-> "E1", net_pay |-> 70],
                           [employee_id |-> "E1", net_pay |-> 70],
                           [employee_id |-> "E2", net_pay |-> Units(1)],
                           [employee_id |-> "E2", net_pay |-> Units(1)],
                           [employee_id |-> "E2", net_pay |-> Units(1)] >>, 1, n),
                 TRUE) : n \in {0, 6}}

ReportRuleTables ==
    {Without([social_security_percent |-> 12,
              income_tax_slabs |-> PartitionIncomeSlabs,
              professional_tax |-> DocumentedProfessionalTax], missing) :
        missing \in {{}, {"professional_tax"}}}

\* the request bodies: empty, or with the pay_period of the batch
ReportRequests ==
    {[op |-> "detect-anomalies", body |-> Without([pay_period |-> p], missing)] :
        p \in {"2025-10", "2025-11"}, missing \in {{}, {"pay_period"}}}

\* the next request arrives once the response is sent
ReceiveReportRequest ==
    /\ ~Pending
    /\ request' \in ReportRequests
    /\ outcome' = NoOutcome
    /\ response' = NoResponse
    /\ UNCHANGED stores

InitReport ==
    /\ TAX_RULES \in ReportRuleTables
    /\ historyDB \in ReportHistories
    /\ payrollDB \in Batches
    /\ clock \in {"2025-11", "2025-12"}
    /\ usersDB = << >>
    /\ registrations = << >>
    /\ request \in ReportRequests
    /\ outcome = NoOutcome
    /\ response = NoResponse

NextReport == DetectAnomaliesRoute \/ ReceiveReportRequest

SpecReport == InitReport /\ [][NextReport]_vars

----------------------------------------------------------------------------
(* curd_employee.js: the payroll store and its routes *)

ValidationError(message) == Throw("ValidationError", message)

\* !value || typeof value !== 'string' || value.trim() === '' is false
IsNonEmptyString(requestBody, key) ==
    key \in DOMAIN requestBody /\ requestBody[key] \notin {"", " "}

\* value === undefined || typeof value !== 'number' || value < 0 is false
IsNonNegativeNumber(requestBody, key) ==
    key \in DOMAIN requestBody /\ requestBody[key] >= 0

validatePayroll(requestBody) ==
    IF ~IsNonEmptyString(requestBody, "employee_id")
    THEN ValidationError("employee_id is required and must be a non-empty string.")
    ELSE IF ~IsNonEmptyString(requestBody, "name")
    THEN ValidationError("name is required and must be a non-empty string.")
    ELSE IF ~IsNonEmptyString(requestBody, "department")
    THEN ValidationError("department is required and must be a non-empty string.")
    ELSE IF ~IsNonNegativeNumber(requestBody, "salary")
    THEN ValidationError("salary is required and must be a non-negative number.")
    ELSE IF ~IsNonNegativeNumber(requestBody, "bonus")
    THEN ValidationError("bonus is required and must be a non-negative number.")
    ELSE IF ~IsNonNegativeNumber(requestBody, "deductions")
    THEN ValidationError("deductions is required and must be a non-negative number.")
    ELSE Return(TRUE)

\* newEmployee and updatedEmployee: the six fields of the body, nothing else
PayrollRecord(requestBody) ==
    [employee_id |-> requestBody.employee_id,
     name |-> requestBody.name,
     department |-> requestBody.department,
     salary |-> requestBody.salary,
     bonus |-> requestBody.bonus,
     deductions |-> requestBody.deductions]

\* a search that never finds a record
FindIndex_none(db, id) == 0

\* db.findIndex(emp => emp.employee_id === id), counted from 1; 0 for none
FindIndex(db, id) ==
    IF \E i \in 1..Len(db) : db[i].employee_id = id
    THEN CHOOSE i \in 1..Len(db) :
            /\ db[i].employee_id = id
            /\ \A j \in 1..(i - 1) : db[j].employee_id # id
    ELSE 0

\* the global error handler: 400 for a ValidationError, 500 for the rest
GlobalErrorHandler(err) ==
    IF err.name = "ValidationError"
    THEN [status |-> 400, body |-> [error |-> err.message]]
    ELSE InternalServerError

Conflict ==
    [status |-> 409, body |-> [error |-> "Employee with this ID already exists."]]

\* POST /payroll
PostPayroll ==
    /\ Pending
    /\ request.op = "POST /payroll"
    /\ LET valid == validatePayroll(request.body)
           newEmployee == PayrollRecord(request.body)
       IN  IF valid.threw
           THEN /\ outcome' = valid
                /\ response' = GlobalErrorHandler(valid)
                /\ UNCHANGED payrollDB
           ELSE IF FindIndex(payrollDB, request.body.employee_id) # 0
           THEN /\ outcome' = Return(Conflict.body)
                /\ response' = Conflict
                /\ UNCHANGED payrollDB
           ELSE /\ payrollDB' = Append(payrollDB, newEmployee)
                /\ outcome' = Return(newEmployee)
                /\ response' = [status |-> 201, body |-> newEmployee]
    /\ UNCHANGED <<TAX_RULES, historyDB, clock, usersDB, registrations, request>>

\* GET /payroll
GetPayroll ==
    /\ Pending
    /\ request.op = "GET /payroll"
    /\ outcome' = Return(payrollDB)
    /\ response' = [status |-> 200, body |-> payrollDB]
    /\ UNCHANGED <<stores, request>>

\* GET /payroll/:id
GetPayrollById ==
    /\ Pending
    /\ request.op = "GET /payroll/:id"
    /\ LET index == FindIndex(payrollDB, request.params.id)
       IN  response' = IF index = 0 THEN NotFound
                       ELSE [status |-> 200, body |-> payrollDB[index]]
    /\ outcome' = Return(response'.body)
    /\ UNCHANGED <<stores, request>>

\* a handler that replaces the record of the URL before it compares the ids
PutPayroll_writesBeforeIdCheck ==
    /\ Pending
    /\ request.op = "PUT /payroll/:id"
    /\ LET valid == validatePayroll(request.body)
           mismatch == ValidationError("Employee ID in URL does not match body.")
           employeeIndex == FindIndex(payrollDB, request.params.id)
           updatedEmployee == PayrollRecord(request.body)
       IN  IF valid.threw
           THEN /\ outcome' = valid
                /\ response' = GlobalErrorHandler(valid)
                /\ UNCHANGED payrollDB
           ELSE IF employeeIndex = 0
           THEN /\ outcome' = Return(NotFound.body)
                /\ response' = NotFound
                /\ UNCHANGED payrollDB
           ELSE /\ payrollDB' = [payrollDB EXCEPT ![employeeIndex] = updatedEmployee]
                /\ outcome' = IF request.params.id # request.body.employee_id
                              THEN mismatch ELSE Return(updatedEmployee)
                /\ response' = IF outcome'.threw THEN GlobalErrorHandler(mismatch)
                               ELSE [status |-> 200, body |-> updatedEmployee]
    /\ UNCHANGED <<TAX_RULES, historyDB, clock, usersDB, registrations, request>>

\* PUT /payroll/:id
PutPayroll ==
    /\ Pending
    /\ request.op = "PUT /payroll/:id"
    /\ LET valid == validatePayroll(request.body)
           mismatch == ValidationError("Employee ID in URL does not match body.")
           employeeIndex == FindIndex(payrollDB, request.params.id)
           updatedEmployee == PayrollRecord(request.body)
       IN  IF valid.threw
           THEN /\ outcome' = valid
                /\ response' = GlobalErrorHandler(valid)
                /\ UNCHANGED payrollDB
           ELSE IF request.params.id # request.body.employee_id
           THEN /\ outcome' = mismatch
                /\ response' = GlobalErrorHandler(mismatch)
                /\ UNCHANGED payrollDB
           ELSE IF employeeIndex = 0
           THEN /\ outcome' = Return(NotFound.body)
                /\ response' = NotFound
                /\ UNCHANGED payrollDB
           ELSE /\ payrollDB' = [payrollDB EXCEPT ![employeeIndex] = updatedEmployee]
                /\ outcome' = Return(updatedEmployee)
                /\ response' = [status |-> 200, body |-> updatedEmployee]
    /\ UNCHANGED <<TAX_RULES, historyDB, clock, usersDB, registrations, request>>

\* DELETE /payroll/:id
DeletePayroll ==
    /\ Pending
    /\ request.op = "DELETE /payroll/:id"
    /\ LET employeeIndex == FindIndex(payrollDB, request.params.id)
       IN  IF employeeIndex = 0
           THEN /\ outcome' = Return(NotFound.body)
                /\ response' = NotFound
                /\ UNCHANGED payrollDB
           ELSE /\ payrollDB' = SubSeq(payrollDB, 1, employeeIndex - 1)
                                \o SubSeq(payrollDB, employeeIndex + 1, Len(payrollDB))
                /\ outcome' = Return(TRUE)
                /\ response' = [status |-> 204]
    /\ UNCHANGED <<TAX_RULES, historyDB, clock, usersDB, registrations, request>>

(* The requests to the payroll routes *)

\* bodies that pass the validation, one of them with a location
ValidBodies ==
    [employee_id : {"E1", "E2"},
     name : {"N"},
     department : {"Engineering"},
     salary : {Units(1), Units(2)},
     bonus : {0},
     deductions : {0}]
    \cup {[employee_id |-> "E1", name |-> "N", department |-> "Engineering",
           salary |-> Units(1), bonus |-> 0, deductions |-> 0,
           location |-> "Mumbai"]}

\* bodies that fail it: a field missing, a blank employee_id, a negative salary
InvalidBodies ==
    LET body == [employee_id |-> "E1", name |-> "N", department |-> "Engineering",
                 salary |-> Units(1), bonus |-> 0, deductions |-> 0]
    IN  {Without(body, {key}) : key \in DOMAIN body}
        \cup {[body EXCEPT !.employee_id = " "], [body EXCEPT !.salary = -Units(1)]}

\* no Authorization header, a token that login signed, or some other token
Headers ==
    {Without([authorization |-> token], missing) :
        token \in {"Bearer signed", "Bearer forged"},
        missing \in {{}, {"authorization"}}}

PayrollRequests ==
    LET bodies == ValidBodies \cup InvalidBodies
        ids == {"E1", "E2", "E9"}
        With(h) ==
            {[op |-> "POST /payroll", headers |-> h, body |-> b] : b \in bodies}
            \cup {[op |-> "GET /payroll", headers |-> h]}
            \cup {[op |-> "GET /payroll/:id", headers |-> h, params |-> [id |-> id]] :
                    id \in ids}
            \cup {[op |-> "PUT /payroll/:id", headers |-> h, params |-> [id |-> id],
                   body |-> b] : id \in ids, b \in bodies}
            \cup {[op |-> "DELETE /payroll/:id", headers |-> h,
                   params |-> [id |-> id]] : id \in ids}
            \cup {[op |-> "calculate-net", headers |-> h,
                   employee |-> [employee_id |-> "E1", location |-> "Mumbai",
                                 salary |-> Units(1), bonus |-> 0, deductions |-> 0]]}
            \cup {[op |-> "detect-anomalies", headers |-> h]}
    IN  UNION {With(h) : h \in Headers}

\* the next request arrives once the response is sent
ReceivePayrollRequest ==
    /\ ~Pending
    /\ request' \in PayrollRequests
    /\ outcome' = NoOutcome
    /\ response' = NoResponse
    /\ UNCHANGED stores

\* app.listen creates an empty store; the first request is on its way
InitPayroll ==
    /\ TAX_RULES = [social_security_percent |-> 12,
                    income_tax_slabs |-> PartitionIncomeSlabs,
                    professional_tax |-> DocumentedProfessionalTax]
    /\ historyDB = << >>
    /\ payrollDB = << >>
    /\ clock = "2025-11"
    /\ usersDB = << >>
    /\ registrations = << >>
    /\ request \in PayrollRequests
    /\ outcome = NoOutcome
    /\ response = NoResponse

NextPayroll ==
    \/ PostPayroll
    \/ GetPayroll
    \/ GetPayrollById
    \/ PutPayroll
    \/ DeletePayroll
    \/ CalculateNet
    \/ DetectAnomaliesRoute
    \/ ReceivePayrollRequest

SpecPayroll == InitPayroll /\ [][NextPayroll]_vars

----------------------------------------------------------------------------
(* user_auth.js: POST /auth/register *)

\* !value for a text of the body: the key is missing or the text is empty
IsFalsy(body, key) == key \notin DOMAIN body \/ body[key] = ""

\* utils/dbHelpers: the user store is read and written as a whole
readUsersDB == usersDB
writeUsersDB(data) == data

UserConflict ==
    [status |-> 409, body |-> [error |-> "User with this email already exists."]]

\* the handler from its start to the await of bcrypt.hash: a request that is
\* not answered here keeps the store it read
RegisterStart(k) ==
    /\ registrations[k].pc = "received"
    /\ LET body == registrations[k].body
           local == readUsersDB
           required == ValidationError("employee_id, email, password, and role are required.")
           role == ValidationError("Role must be 'admin' or 'employee'.")
       IN  registrations' = [registrations EXCEPT ![k] =
             IF \E key \in {"employee_id", "email", "password", "role"} :
                   IsFalsy(body, key)
             THEN [@ EXCEPT !.pc = "done", !.response = GlobalErrorHandler(required)]
             ELSE IF body.role # "admin" /\ body.role # "employee"
             THEN [@ EXCEPT !.pc = "done", !.response = GlobalErrorHandler(role)]
             ELSE IF \E i \in 1..Len(local) : local[i].email = body.email
             THEN [@ EXCEPT !.pc = "done", !.response = UserConflict]
             ELSE [@ EXCEPT !.pc = "hashing", !.usersDB = local]]
    /\ UNCHANGED <<TAX_RULES, historyDB, payrollDB, clock, usersDB>>
    /\ UNCHANGED <<request, outcome, response>>

\* the handler after the await: the user is pushed to the store that was
\* read before the await, and that store is written
RegisterFinish(k) ==
    /\ registrations[k].pc = "hashing"
    /\ LET body == registrations[k].body
           newUser == [employee_id |-> body.employee_id,
                       email |-> body.email,
                       password_hash |-> [bcrypt |-> body.password],
                       role |-> body.role]
           local == Append(registrations[k].usersDB, newUser)
       IN  /\ usersDB' = writeUsersDB(local)
           /\ registrations' = [registrations EXCEPT ![k] =
                 [@ EXCEPT !.pc = "done",
                           !.usersDB = local,
                           !.response =
                               [status |-> 201,
                                body |-> [message |-> "User registered successfully.",
                                          employee_id |-> body.employee_id,
                                          email |-> body.email,
                                          role |-> body.role]]]]
    /\ UNCHANGED <<TAX_RULES, historyDB, payrollDB, clock>>
    /\ UNCHANGED <<request, outcome, response>>

(* Bounds of the registrations *)

\* the number of register requests in flight
MaxRegistrations == 3

\* complete bodies, a body without password and a body with another role
RegisterBodies ==
    [employee_id : {"E1", "E2"}, email : {"a@x", "b@x"},
     password : {"p"}, role : {"employee"}]
    \cup {[employee_id |-> "E1", email |-> "a@x", role |-> "admin"],
          [employee_id |-> "E1", email |-> "a@x", password |-> "p",
           role |-> "manager"]}

\* a user registered earlier
StoredUser ==
    [employee_id |-> "E1", email |-> "a@x", password_hash |-> [bcrypt |-> "p"],
     role |-> "admin"]

\* the requests have arrived; none has been handled yet
InitRegister ==
    /\ TAX_RULES = [social_security_percent |-> 12,
                    income_tax_slabs |-> PartitionIncomeSlabs,
                    professional_tax |-> DocumentedProfessionalTax]
    /\ historyDB = << >>
    /\ payrollDB = << >>
    /\ clock = "2025-11"
    /\ usersDB \in {<< >>, << StoredUser >>}
    /\ \E bodies \in UNION {[1..n -> RegisterBodies] : n \in 1..MaxRegistrations} :
          registrations = [k \in 1..Len(bodies) |->
                              [body |-> bodies[k], pc |-> "received",
                               usersDB |-> << >>, response |-> NoResponse]]
    /\ request = [op |-> "POST /auth/register"]
    /\ outcome = NoOutcome
    /\ response = NoResponse

NextRegister ==
    \/ \E k \in DOMAIN registrations : RegisterStart(k)
    \/ \E k \in DOMAIN registrations : RegisterFinish(k)

SpecRegister == InitRegister /\ [][NextRegister]_vars

----------------------------------------------------------------------------
(* Properties of the net-pay calculator, under SpecNetPay *)

\* calculate-net has been answered
NetServed == request.op = "calculate-net" /\ ~Pending

\* calculateNetPay returned a result
NetReturned == NetServed /\ ~outcome.threw

\* the reasons for which calculateNetPay throws
ThrowCause ==
    \/ IsUndefined(request.employee)
    \/ "professional_tax" \notin DOMAIN TAX_RULES
    \/ "income_tax_slabs" \notin DOMAIN TAX_RULES
    \/ LocationRules(TAX_RULES.professional_tax, request.employee)
          \in {"undefined", "inherited"}

FourDeductions(b) ==
    JSAdd(JSAdd(JSAdd(b.company_tax, b.social_security), b.professional_tax),
          b.personal_deductions)

\* C1: every result satisfies net_pay = gross_pay - (company_tax +
\* social_security + professional_tax + personal_deductions) and
\* total_deductions is that same sum; an error comes only from a missing
\* employee, a missing section or an unusable location table, never from a
\* negative net pay.
C1_NetPayIdentity ==
    /\ NetReturned =>
          LET r == outcome.value
          IN  /\ r.breakdown.total_deductions = FourDeductions(r.breakdown)
              /\ r.net_pay = JSSub(r.gross_pay, FourDeductions(r.breakdown))
    /\ (NetServed /\ outcome.threw) => ThrowCause

\* C1 witness: a result with all four deductions at work and a negative net pay
C1_Witness ==
    /\ NetReturned
    /\ IsNumber(outcome.value.net_pay)
    /\ outcome.value.net_pay.v < 0
    /\ outcome.value.breakdown.company_tax.v > 0
    /\ outcome.value.breakdown.social_security.v > 0
    /\ outcome.value.breakdown.professional_tax.v > 0
    /\ outcome.value.breakdown.personal_deductions.v > 0

\* C2: the gross pay returned is salary + bonus, whatever the rule table, the
\* location and the deductions.
C2_GrossPay ==
    NetReturned =>
        LET e == request.employee
        IN  IF {"salary", "bonus"} \subseteq DOMAIN e
            THEN outcome.value.gross_pay = Num(e.salary + e.bonus)
            ELSE outcome.value.gross_pay = NaN

\* C2 witness: a result for an employee with a salary and a bonus
C2_Witness ==
    /\ NetReturned
    /\ {"salary", "bonus"} \subseteq DOMAIN request.employee
    /\ request.employee.salary > 0
    /\ request.employee.bonus > 0
    /\ outcome.value.gross_pay.v = request.employee.salary + request.employee.bonus

\* C3: the calculation fails, and returns no result, when the rule table
\* lacks one of its three sections or the employee is absent.
C3_MissingSectionFails ==
    (NetServed /\ (IsUndefined(request.employee)
                   \/ ~(Sections \subseteq DOMAIN TAX_RULES)))
        => outcome.threw

\* the slabs whose inclusive range holds the amount g
Containing(slabs, g) ==
    {i \in 1..Len(slabs) : slabs[i].min <= g /\ g <= slabs[i].max}

\* C4: company_tax is gross_pay * rate of the slab whose inclusive range
\* holds gross_pay, and 0 when no slab holds it.
C4_CompanyTax ==
    (NetReturned /\ IsNumber(outcome.value.gross_pay)) =>
        LET g == outcome.value.gross_pay.v
            slabs == TAX_RULES.income_tax_slabs
            tax == outcome.value.breakdown.company_tax
        IN  IF Containing(slabs, g) = {}
            THEN tax = Num(0)
            ELSE \E i \in Containing(slabs, g) :
                    tax = Num((g * slabs[i].rate) \div 100)

\* C4 witness: a gross pay in a later slab, taxed at that slab's rate alone
C4_Witness ==
    /\ NetReturned
    /\ IsNumber(outcome.value.gross_pay)
    /\ LET g == outcome.value.gross_pay.v
           slabs == TAX_RULES.income_tax_slabs
       IN  /\ \E i \in 2..Len(slabs) :
                 /\ Containing(slabs, g) = {i}
                 /\ slabs[i].rate > 0
                 /\ outcome.value.breakdown.company_tax
                        = Num((g * slabs[i].rate) \div 100)
           /\ outcome.value.breakdown.company_tax.v # ProgressiveTax(g, slabs, 1)

\* the table the claim selects: the location's own table, else the default
ClaimedTable(professional_tax, employee) ==
    IF "location" \in DOMAIN employee
       /\ employee.location \in DOMAIN professional_tax
    THEN professional_tax[employee.location]
    ELSE professional_tax.default

\* C5: professional_tax is the flat amount of the slab holding gross_pay in
\* the table of the employee's location; the default table is used when the
\* location is missing or is no key of the mapping; 0 when no slab holds it.
C5_ProfessionalTax ==
    (/\ NetServed
     /\ ~IsUndefined(request.employee)
     /\ Sections \subseteq DOMAIN TAX_RULES
     /\ "default" \in DOMAIN TAX_RULES.professional_tax
     /\ {"salary", "bonus"} \subseteq DOMAIN request.employee) =>
        /\ ~outcome.threw
        /\ LET g == request.employee.salary + request.employee.bonus
               slabs == ClaimedTable(TAX_RULES.professional_tax, request.employee)
               tax == outcome.value.breakdown.professional_tax
           IN  IF Containing(slabs, g) = {}
               THEN tax = Num(0)
               ELSE \E i \in Containing(slabs, g) : tax = Num(slabs[i].tax)

\* slabs that leave no whole unit from 0 to Top outside every range
CoversWithoutGaps(slabs) ==
    /\ Len(slabs) > 0
    /\ slabs[1].min <= 0
    /\ \A i \in 1..(Len(slabs) - 1) : slabs[i + 1].min <= slabs[i].max + Units(1)
    /\ slabs[Len(slabs)].max >= Top

\* slabs whose inclusive ranges are pairwise disjoint
Disjoint(slabs) ==
    \A i, j \in 1..Len(slabs) :
        i < j => (slabs[i].max < slabs[j].min \/ slabs[j].max < slabs[i].min)

\* the slabs the callback of find accepts
Matching(slabs, grossPay) ==
    {i \in 1..Len(slabs) : SlabMatches(grossPay, slabs[i])}

\* the location table calculateNetPay selected
SelectedTable ==
    TAX_RULES.professional_tax[
        LocationRules(TAX_RULES.professional_tax, request.employee)]

\* C6 as stated: with slabs that cover every non-negative value without
\* gaps, a non-negative gross pay matches exactly one income-tax slab and
\* exactly one slab of the selected location table.
C6_ExactlyOneSlab ==
    (NetReturned /\ IsNumber(outcome.value.gross_pay)) =>
        LET grossPay == outcome.value.gross_pay
        IN  /\ CoversWithoutGaps(TAX_RULES.income_tax_slabs) =>
                  Cardinality(Matching(TAX_RULES.income_tax_slabs, grossPay)) = 1
            /\ CoversWithoutGaps(SelectedTable) =>
                  Cardinality(Matching(SelectedTable, grossPay)) = 1

\* C6 amended: with slabs that cover every whole unit without gaps and whose
\* ranges are pairwise disjoint, a gross pay of whole units matches exactly
\* one income-tax slab and exactly one slab of the selected location table.
C6_ExactlyOneSlabOfDisjoint ==
    (NetReturned /\ IsNumber(outcome.value.gross_pay)) =>
        LET grossPay == outcome.value.gross_pay
        IN  /\ (CoversWithoutGaps(TAX_RULES.income_tax_slabs)
                /\ Disjoint(TAX_RULES.income_tax_slabs)) =>
                  Cardinality(Matching(TAX_RULES.income_tax_slabs, grossPay)) = 1
            /\ (CoversWithoutGaps(SelectedTable) /\ Disjoint(SelectedTable)) =>
                  Cardinality(Matching(SelectedTable, grossPay)) = 1

\* C6 witness: a gross pay at the upper end of a slab of a table of several
\* disjoint slabs, for the income tax and for the professional tax
C6_Witness ==
    /\ NetReturned
    /\ IsNumber(outcome.value.gross_pay)
    /\ CoversWithoutGaps(TAX_RULES.income_tax_slabs)
    /\ Disjoint(TAX_RULES.income_tax_slabs)
    /\ CoversWithoutGaps(SelectedTable)
    /\ Disjoint(SelectedTable)
    /\ Len(SelectedTable) > 1
    /\ \E i \in 1..Len(TAX_RULES.income_tax_slabs) :
          /\ outcome.value.gross_pay.v = TAX_RULES.income_tax_slabs[i].max
          /\ Matching(TAX_RULES.income_tax_slabs, outcome.value.gross_pay) = {i}

----------------------------------------------------------------------------
(* Properties of the historical-variance strategy, under SpecHistory *)

\* the strategy has been called and has returned its flags
HistoryServed == request.op = "historical-variance" /\ ~Pending

\* the levels of a sequence of flags
Levels(flags) == [i \in 1..Len(flags) |-> flags[i].level]

\* the level the thresholds give for a proposed net pay cur, in hundredths,
\* against the mean total / n of n records, total # 0:
\* percent_change = (cur - total / n) / (total / n) = (n * cur - total) / total
ThresholdLevels(n, total, cur) ==
    IF 2 * Abs(n * cur - total) > Abs(total) THEN << "ANOMALY" >>
    ELSE IF 5 * Abs(n * cur - total) > Abs(total) THEN << "REVIEW" >>
    ELSE << >>

\* the records the strategy averages
Taken == RecentHistory(FilterHistory(historyDB, request.employee.employee_id))

C8_ZeroAverageNoFlag ==
    (HistoryServed /\ Len(Taken) >= 3 /\ SumNetPay(Taken) = 0) =>
        outcome.value = << >>

\* the positions of the records of an employee in the store
Positions(history, employee_id) ==
    {i \in 1..Len(history) : history[i].employee_id = employee_id}

\* C9: with fewer than 3 records of the employee in the history the strategy
\* emits no flag, whatever the proposed net pay and the other records.
C9_InsufficientHistory ==
    (HistoryServed
     /\ Cardinality(Positions(historyDB, request.employee.employee_id)) < 3) =>
        outcome.value = << >>

\* C9 witness: two records of the employee among three or more records, and
\* a proposed net pay more than 50% above both
C9_Witness ==
    /\ HistoryServed
    /\ Cardinality(Positions(historyDB, request.employee.employee_id)) = 2
    /\ Len(historyDB) >= 3
    /\ \A i \in Positions(historyDB, request.employee.employee_id) :
          historyDB[i].net_pay > 0
          /\ 2 * request.proposedPay.net_pay.v > 3 * historyDB[i].net_pay
    /\ outcome.value = << >>

\* the first six positions of the employee's records, in the store's order
FirstSix(history, employee_id) ==
    {i \in Positions(history, employee_id) :
        Cardinality({j \in Positions(history, employee_id) : j < i}) < 6}

RECURSIVE SumAt(_, _)
SumAt(history, positions) ==
    IF positions = {} THEN 0
    ELSE LET i == CHOOSE k \in positions : TRUE
         IN  history[i].net_pay + SumAt(history, positions \ {i})

\* the history without the records of other employees and without the
\* employee's records after the sixth
Pruned(history, employee_id) ==
    LET keep == FirstSix(history, employee_id)
        F[i \in 0..Len(history)] ==
            IF i = 0 THEN << >>
            ELSE IF i \in keep THEN Append(F[i - 1], history[i]) ELSE F[i - 1]
    IN  F[Len(history)]

\* C10: the average is the mean of net_pay over the first min(6, n) records
\* of the employee in the store's order, whatever their pay_period; the
\* employee's records after the sixth and the records of other employees do
\* not change the flags.
C10_FirstSixInStoreOrder ==
    HistoryServed =>
        LET id == request.employee.employee_id
            six == FirstSix(historyDB, id)
        IN  /\ outcome.value =
                  detectHistoricalVariance(request.employee, request.proposedPay,
                                           Pruned(historyDB, id))
            /\ (Cardinality(Positions(historyDB, id)) >= 3
                /\ SumAt(historyDB, six) # 0) =>
                  Levels(outcome.value) =
                      ThresholdLevels(Cardinality(six), SumAt(historyDB, six),
                                      request.proposedPay.net_pay.v)

\* C10 witness: seven records of the employee, oldest first, where the mean
\* of all seven would give another outcome than the mean of the first six
C10_Witness ==
    /\ HistoryServed
    /\ LET all == Positions(historyDB, request.employee.employee_id)
       IN  /\ Cardinality(all) = 7
           /\ historyDB[1].pay_period < historyDB[2].pay_period
           /\ SumAt(historyDB, all) # 0
           /\ SumAt(historyDB, FirstSix(historyDB, request.employee.employee_id)) # 0
           /\ Levels(outcome.value) #
                 ThresholdLevels(7, SumAt(historyDB, all),
                                 request.proposedPay.net_pay.v)

----------------------------------------------------------------------------
(* Properties of the peer-variance strategy, checked under SpecPeer *)

\* the strategy has been applied
PeerServed == request.op = "peer-variance" /\ ~Pending

\* both records carry the same string under key, or both carry none
SameText(a, b, key) ==
    IF key \in DOMAIN a
    THEN key \in DOMAIN b /\ a[key] = b[key]
    ELSE key \notin DOMAIN b

\* the positions of the other members of the employee's group
PeerPositions(batch, employee) ==
    {i \in 1..Len(batch) :
        /\ batch[i].employee_id # employee.employee_id
        /\ SameText(batch[i], employee, "department")
        /\ SameText(batch[i], employee, "location")}

RECURSIVE SalaryAt(_, _)
SalaryAt(batch, positions) ==
    IF positions = {} THEN 0
    ELSE LET i == CHOOSE k \in positions : TRUE
         IN  batch[i].salary + SalaryAt(batch, positions \ {i})

MultiplierLevels(n, total, salary) ==
    IF n * salary > 3 * total THEN << "ANOMALY" >>
    ELSE IF 2 * n * salary > 3 * total THEN << "REVIEW" >>
    ELSE << >>

----------------------------------------------------------------------------
(* Properties of the absolute rules, checked under SpecAbsolute *)

AbsoluteServed == request.op = "absolute-rules" /\ ~Pending

\* the proposed net pay is a number below zero
NegativeNetPay(proposedPay) ==
    proposedPay.net_pay.t = "number" /\ proposedPay.net_pay.v < 0

\* the record carries a bonus and a salary, and the bonus is above twice the
\* salary
LargeBonus(employee) ==
    /\ {"bonus", "salary"} \subseteq DOMAIN employee
    /\ employee.bonus > 2 * employee.salary

\* C13: the two absolute rules are independent: an ANOMALY flag is emitted
\* exactly when net_pay < 0 and a REVIEW flag exactly when bonus > 2 * salary,
\* so the strategy emits 0, 1 or 2 flags, the ANOMALY first when both hold.
C13_AbsoluteRules ==
    AbsoluteServed =>
        Levels(outcome.value) =
            (IF NegativeNetPay(request.proposedPay) THEN << "ANOMALY" >> ELSE << >>)
            \o (IF LargeBonus(request.employee) THEN << "REVIEW" >> ELSE << >>)

\* C13 witness: a negative net pay and a bonus above twice the salary give
\* the two flags, ANOMALY first
C13_Witness ==
    /\ AbsoluteServed
    /\ NegativeNetPay(request.proposedPay)
    /\ LargeBonus(request.employee)
    /\ request.employee.salary > 0
    /\ outcome.value = << NegativeNetPayFlag, LargeBonusFlag >>

----------------------------------------------------------------------------
(* Properties of the report, checked under SpecReport *)

\* a report has been built and sent
ReportBuilt ==
    request.op = "detect-anomalies" /\ ~Pending /\ response.status = 200

\* the flags the three strategies emit for the i-th employee of the batch
Emitted(i) ==
    LET employee == payrollDB[i]
        proposedPay == calculateNetPay(employee).value
    IN  << detectHistoricalVariance(employee, proposedPay, historyDB),
           detectPeerVariance(employee, payrollDB),
           detectAbsoluteRules(employee, proposedPay) >>

\* the employees with at least one flag
Flagged == {i \in 1..Len(payrollDB) : \E k \in {1, 2, 3} : Emitted(i)[k] # << >>}

\* C14: the status of a report is ANOMALY_DETECTED exactly when some employee
\* has an ANOMALY flag, REVIEW_REQUIRED exactly when there is a flag and no
\* ANOMALY flag, and CLEAN exactly when no flag was emitted at all.
C14_ReportStatus ==
    ReportBuilt =>
        LET anomaly == \E i \in 1..Len(payrollDB) :
                          \E k \in {1, 2, 3} : \E j \in 1..Len(Emitted(i)[k]) :
                              Emitted(i)[k][j].level = "ANOMALY"
            status == response.body.status
        IN  /\ status \in {"ANOMALY_DETECTED", "REVIEW_REQUIRED", "CLEAN"}
            /\ status = "ANOMALY_DETECTED" <=> anomaly
            /\ status = "REVIEW_REQUIRED" <=> (Flagged # {} /\ ~anomaly)
            /\ status = "CLEAN" <=> Flagged = {}

\* C14 witness: a report of two flagged employees without any ANOMALY flag
C14_Witness ==
    /\ ReportBuilt
    /\ Cardinality(Flagged) = 2
    /\ \A i \in Flagged : \A k \in {1, 2, 3} : \A j \in 1..Len(Emitted(i)[k]) :
          Emitted(i)[k][j].level = "REVIEW"
    /\ response.body.status = "REVIEW_REQUIRED"

\* the i-th flagged employee, in the order of the batch
NthFlagged(n) ==
    CHOOSE i \in Flagged : Cardinality({j \in Flagged : j < i}) = n - 1

\* C15: the report holds one entry per employee with at least one flag and
\* none for an employee without flags; the entries follow the order of the
\* batch, and the flags of an entry are the historical flags, then the peer
\* flags, then the absolute flags.
C15_ReportEntries ==
    ReportBuilt =>
        LET report == response.body.report
        IN  /\ Len(report) = Cardinality(Flagged)
            /\ \A n \in 1..Len(report) :
                  LET i == NthFlagged(n)
                  IN  /\ report[n].employee_id = payrollDB[i].employee_id
                      /\ report[n].flags =
                            Emitted(i)[1] \o Emitted(i)[2] \o Emitted(i)[3]

\* C15 witness: of two employees the second comes first by employee_id; both
\* are flagged, one of them by all three strategies
C15_Witness ==
    /\ ReportBuilt
    /\ Len(payrollDB) = 2
    /\ payrollDB[1].employee_id = "E2"
    /\ payrollDB[2].employee_id = "E1"
    /\ Flagged = {1, 2}
    /\ \E i \in Flagged : \A k \in {1, 2, 3} : Emitted(i)[k] # << >>
    /\ response.body.report[1].employee_id = "E2"

\* the employees of the batch whose net pay is negative
NegativeNet ==
    {i \in 1..Len(payrollDB) : NegativeNetPay(calculateNetPay(payrollDB[i]).value)}

\* C16: for every employee of the batch whose net pay is below zero, the
\* report holds an entry with an ANOMALY flag, and the status of the report
\* is ANOMALY_DETECTED, whatever the other strategies say.
C16_NegativeNetPayReported ==
    ReportBuilt =>
        \A i \in NegativeNet :
            /\ \E n \in 1..Len(response.body.report) :
                  /\ response.body.report[n].employee_id = payrollDB[i].employee_id
                  /\ \E j \in 1..Len(response.body.report[n].flags) :
                        response.body.report[n].flags[j].level = "ANOMALY"
            /\ response.body.status = "ANOMALY_DETECTED"

\* C16 witness: an employee with a negative net pay whose salary is flagged
\* REVIEW against its peer and who has no history
C16_Witness ==
    /\ ReportBuilt
    /\ \E i \in NegativeNet :
          /\ Emitted(i)[1] = << >>
          /\ Levels(Emitted(i)[2]) = << "REVIEW" >>
    /\ response.body.status = "ANOMALY_DETECTED"

\* C17: no step of a report build, or of any number of them, changes the
\* history, the batch or the rule table.
C17_BuildReadsOnly ==
    [][/\ historyDB' = historyDB
       /\ payrollDB' = payrollDB
       /\ TAX_RULES' = TAX_RULES]_vars

\* C17 witness: a report of flags was built from a stored history and a
\* batch of two
C17_Witness ==
    /\ ReportBuilt
    /\ Len(historyDB) = 6
    /\ Len(payrollDB) = 2
    /\ Len(response.body.report) = 2

\* C19: a report built for a request that supplies a pay_period carries
\* exactly that pay_period; the current month is used only when none is
\* supplied.
C19_SuppliedPayPeriod ==
    ReportBuilt =>
        response.body.pay_period =
            IF "pay_period" \in DOMAIN request.body
            THEN request.body.pay_period ELSE clock

----------------------------------------------------------------------------
(* Properties of incomplete employee records, checked under SpecRecord *)

\* C18: an employee record without salary, bonus or deductions is rejected:
\* the calculation ends in an error and no result is returned.
C18_RejectsMissingField ==
    (NetServed /\ ~(NumericFields \subseteq DOMAIN request.employee)) =>
        /\ outcome.threw
        /\ response.status # 200

----------------------------------------------------------------------------
(* Properties of the payroll routes, checked under SpecPayroll *)

\* the request carries a Bearer token that login signed
HasValidToken ==
    /\ "authorization" \in DOMAIN request.headers
    /\ request.headers.authorization = "Bearer signed"

\* C20: every payroll route requires a valid Bearer token: serving a request
\* without one neither changes the payroll store nor answers with payroll
\* data (a 200 or a 201).
C20_TokenRequired ==
    [][(Pending /\ ~HasValidToken) =>
          /\ payrollDB' = payrollDB
          /\ response'.status \notin {200, 201}]_vars

\* no two records of the store share an employee_id
UniqueEmployeeIds(db) ==
    \A i, j \in 1..Len(db) : db[i].employee_id = db[j].employee_id => i = j

\* the store holds a record with the employee_id of the body
IdExists(db, body) ==
    /\ "employee_id" \in DOMAIN body
    /\ \E i \in 1..Len(db) : db[i].employee_id = body.employee_id

\* a POST /payroll is about to be served
PostPending == Pending /\ request.op = "POST /payroll"

\* C21 as stated: the store never holds two records with one employee_id,
\* whatever POST, PUT and DELETE requests are served, and every POST whose
\* employee_id is already stored is answered 409.
C21_UniqueEmployeeId ==
    /\ UniqueEmployeeIds(payrollDB)
    /\ [][/\ UniqueEmployeeIds(payrollDB')
          /\ (PostPending /\ IdExists(payrollDB, request.body)) =>
                 response'.status = 409]_vars

\* the body carries the three texts and the three amounts validatePayroll asks for
WellFormed(body) ==
    /\ {"employee_id", "name", "department", "salary", "bonus", "deductions"}
           \subseteq DOMAIN body
    /\ \A key \in {"employee_id", "name", "department"} : body[key] \notin {"", " "}
    /\ \A key \in {"salary", "bonus", "deductions"} : body[key] >= 0

\* C21 amended: the store never holds two records with one employee_id, and
\* every POST that passes validation and whose employee_id is already stored
\* is answered 409 and adds nothing.
C21_UniqueEmployeeIdOfValid ==
    /\ UniqueEmployeeIds(payrollDB)
    /\ [][/\ UniqueEmployeeIds(payrollDB')
          /\ (PostPending /\ WellFormed(request.body)
              /\ IdExists(payrollDB, request.body)) =>
                 (response'.status = 409 /\ payrollDB' = payrollDB)]_vars

\* C21 witness: a well-formed POST for an employee_id of a store of two
\* records was answered 409
C21_Witness ==
    /\ request.op = "POST /payroll"
    /\ ~Pending
    /\ WellFormed(request.body)
    /\ Len(payrollDB) = 2
    /\ IdExists(payrollDB, request.body)
    /\ response.status = 409

\* a POST, PUT or DELETE of a record is about to be served
WritePending ==
    /\ Pending
    /\ request.op \in {"POST /payroll", "PUT /payroll/:id", "DELETE /payroll/:id"}

\* C22: a POST, PUT or DELETE that ends in an error response (400, 404 or
\* 409) leaves the payroll store as it was; validation failures and a PUT with
\* two different ids are answered 400, a duplicate POST 409, an unknown id 404.
C22_ErrorLeavesStore ==
    [][WritePending =>
          /\ response'.status >= 400 => payrollDB' = payrollDB
          /\ (request.op # "DELETE /payroll/:id" /\ ~WellFormed(request.body)) =>
                 response'.status = 400
          /\ (request.op = "PUT /payroll/:id" /\ WellFormed(request.body)
              /\ request.params.id # request.body.employee_id) =>
                 response'.status = 400
          /\ (request.op = "PUT /payroll/:id" /\ WellFormed(request.body)
              /\ request.params.id = request.body.employee_id
              /\ ~IdExists(payrollDB, request.body)) =>
                 response'.status = 404
          /\ (request.op = "DELETE /payroll/:id"
              /\ \A i \in 1..Len(payrollDB) :
                    payrollDB[i].employee_id # request.params.id) =>
                 response'.status = 404]_vars

\* C22 witness: a well-formed PUT to the URL of one stored record with the
\* employee_id of the other was answered 400
C22_Witness ==
    /\ request.op = "PUT /payroll/:id"
    /\ ~Pending
    /\ WellFormed(request.body)
    /\ Len(payrollDB) = 2
    /\ request.params.id # request.body.employee_id
    /\ \E i \in 1..2 : payrollDB[i].employee_id = request.params.id
    /\ IdExists(payrollDB, request.body)
    /\ response.status = 400

----------------------------------------------------------------------------
(* Properties of the registrations, checked under SpecRegister *)

\* no two users of the store share an email
UniqueEmails(users) ==
    \A i, j \in 1..Len(users) : users[i].email = users[j].email => i = j

\* the body carries the four fields, and one of the two roles
CompleteBody(body) ==
    /\ \A key \in {"employee_id", "email", "password", "role"} :
          key \in DOMAIN body /\ body[key] # ""
    /\ body.role \in {"admin", "employee"}

\* the user of the body is in the store
Registered(users, body) ==
    \E i \in 1..Len(users) :
        users[i].email = body.email /\ users[i].employee_id = body.employee_id

\* C23: under every interleaving of register requests the user store never
\* holds two users with one email, and a complete request whose email is in
\* the store when it is answered is answered 409.
C23_EmailUniqueness ==
    /\ UniqueEmails(usersDB)
    /\ [][/\ UniqueEmails(usersDB')
          /\ \A k \in DOMAIN registrations :
                (/\ registrations[k].pc # "done"
                 /\ registrations'[k].pc = "done"
                 /\ CompleteBody(registrations[k].body)
                 /\ \E i \in 1..Len(usersDB) :
                       usersDB[i].email = registrations[k].body.email) =>
                    registrations'[k].response.status = 409]_vars

\* C24: once all register requests, with pairwise different emails, are
\* answered, the user of every request answered 201 is in the user store.
C24_NoLostRegistration ==
    (/\ \A k \in DOMAIN registrations : registrations[k].pc = "done"
     /\ \A k, l \in DOMAIN registrations :
           registrations[k].body.email = registrations[l].body.email => k = l) =>
        \A k \in DOMAIN registrations :
            registrations[k].response.status = 201 =>
                Registered(usersDB, registrations[k].body)

----------------------------------------------------------------------------
(* The slab applied at a shared boundary, checked under SpecNetPay *)

\* the first slab of the table whose inclusive range holds g
FirstContaining(slabs, g) ==
    CHOOSE i \in Containing(slabs, g) : \A j \in Containing(slabs, g) : i <= j

\* C25: when the gross pay lies in the range of several slabs, the first of
\* them in the order of the table is applied, for the income tax as for the
\* professional tax: one rate or amount is charged, and the slabs listed
\* after the first match do not change the result.
C25_FirstMatchingSlab ==
    (NetReturned /\ IsNumber(outcome.value.gross_pay)) =>
        LET grossPay == outcome.value.gross_pay
            g == grossPay.v
            income == TAX_RULES.income_tax_slabs
            location == SelectedTable
        IN  /\ Containing(income, g) # {} =>
                  LET first == FirstContaining(income, g)
                  IN  /\ outcome.value.breakdown.company_tax
                             = Num((g * income[first].rate) \div 100)
                      /\ outcome.value.breakdown.company_tax
                             = calculateIncomeTax(grossPay, SubSeq(income, 1, first))
            /\ Containing(location, g) # {} =>
                  LET first == FirstContaining(location, g)
                  IN  /\ outcome.value.breakdown.professional_tax
                             = Num(location[first].tax)
                      /\ outcome.value.breakdown.professional_tax
                             = calculateSlabTax(grossPay, SubSeq(location, 1, first))

\* C25 witness: a gross pay that is the max of one income-tax slab and the
\* min of the next, taxed at the rate of the first of the two
C25_Witness ==
    /\ NetReturned
    /\ IsNumber(outcome.value.gross_pay)
    /\ LET g == outcome.value.gross_pay.v
           income == TAX_RULES.income_tax_slabs
       IN  /\ g > 0
           /\ \E i \in 1..(Len(income) - 1) :
                 /\ income[i].max = g
                 /\ income[i + 1].min = g
                 /\ income[i].rate # income[i + 1].rate
                 /\ Containing(income, g) = {i, i + 1}
                 /\ outcome.value.breakdown.company_tax
                        = Num((g * income[i].rate) \div 100)

====
